---- MODULE Spec2Model ----
(***************************************************************************)
(* Product listing of the storefront: the useProducts hook (semantic       *)
(* search, fetch by identifiers, in-memory filter / sort / pagination,     *)
(* fallback) and the server's catalog routes and store query.              *)
(*                                                                         *)
(* Text is modelled as a sequence of one-character strings, so that        *)
(* substring matching, case folding and the regular-expression strip of    *)
(* the price normalizer are computed character by character.               *)
(* Ratings (decimal(3,2)) and store-side NUMERIC prices are fixed-point    *)
(* integers in hundredths.                                                 *)
(***************************************************************************)
EXTENDS Integers, Sequences, FiniteSets, TLC

(***************************************************************************)
(* Bounds of the model.                                                    *)
(***************************************************************************)
\* longest candidate list the semantic service returns
MaxCands == 3
\* largest page size requested
MaxLimit == 3
\* longest price text handed to the normalizer
MaxLen == 3

(***************************************************************************)
(* Text helpers.                                                           *)
(***************************************************************************)
UpperChars == <<"A", "B", "C", "D", "E", "F", "G", "H", "I", "J", "K", "L", "M",
                "N", "O", "P", "Q", "R", "S", "T", "U", "V", "W", "X", "Y", "Z">>

LowerChars == <<"a", "b", "c", "d", "e", "f", "g", "h", "i", "j", "k", "l", "m",
                "n", "o", "p", "q", "r", "s", "t", "u", "v", "w", "x", "y", "z">>

DigitChars == <<"0", "1", "2", "3", "4", "5", "6", "7", "8", "9">>

Digits == { DigitChars[i] : i \in DOMAIN DigitChars }

IsDigit(c) == c \in Digits

DigitValue(c) == (CHOOSE i \in DOMAIN DigitChars : DigitChars[i] = c) - 1

ToLowerChar(c) ==
    IF \E i \in DOMAIN UpperChars : UpperChars[i] = c
    THEN LowerChars[CHOOSE i \in DOMAIN UpperChars : UpperChars[i] = c]
    ELSE c

ToLower(s) == [i \in DOMAIN s |-> ToLowerChar(s[i])]

\* s contains t as a contiguous substring (the empty text is in every text)
Contains(s, t) ==
    \E k \in 0..(Len(s) - Len(t)) :
        \A i \in 1..Len(t) : s[k + i] = t[i]

\* SQL  s LIKE t: in the pattern t, % stands for any run of characters and _
\* for any one character
RECURSIVE LikeMatch(_, _)
LikeMatch(s, t) ==
    IF t = <<>> THEN s = <<>>
    ELSE IF Head(t) = "%" THEN LikeMatch(s, Tail(t)) \/ (s # <<>> /\ LikeMatch(Tail(s), t))
    ELSE s # <<>> /\ (Head(t) = "_" \/ Head(t) = Head(s)) /\ LikeMatch(Tail(s), Tail(t))

\* SQL  column ILIKE '%' || t || '%', the text t not being escaped: the
\* pattern match, which for a text without % and _ is the search of t in s
ILikeContains(s, t) ==
    IF \E i \in DOMAIN t : t[i] \in {"%", "_"}
    THEN LikeMatch(ToLower(s), <<"%">> \o ToLower(t) \o <<"%">>)
    ELSE Contains(ToLower(s), ToLower(t))

\* String.prototype.trim over blanks
RECURSIVE TrimLeft(_)
TrimLeft(s) ==
    IF s # <<>> /\ Head(s) = " " THEN TrimLeft(Tail(s)) ELSE s

RECURSIVE TrimRight(_)
TrimRight(s) ==
    IF s # <<>> /\ s[Len(s)] = " " THEN TrimRight(SubSeq(s, 1, Len(s) - 1)) ELSE s

Trim(s) == TrimRight(TrimLeft(s))

\* JavaScript truthiness of a string: the empty string is falsy
Truthy(s) == s # <<>>

(***************************************************************************)
(* Numbers.  NaN is the not-a-number of JavaScript; every comparison with  *)
(* it is false.  It is held as an integer below every number a parse of    *)
(* the inputs gives.                                                       *)
(***************************************************************************)
NaN == 0 - 1000000

\* the leading run of digits of s
RECURSIVE LeadingDigits(_)
LeadingDigits(s) ==
    IF s # <<>> /\ IsDigit(Head(s))
    THEN <<Head(s)>> \o LeadingDigits(Tail(s))
    ELSE <<>>

RECURSIVE DigitsValue(_)
DigitsValue(ds) ==
    IF ds = <<>> THEN 0
    ELSE 10 * DigitsValue(SubSeq(ds, 1, Len(ds) - 1)) + DigitValue(ds[Len(ds)])

\* parseInt(s): leading blanks skipped, a sign taken, the leading digits read
\* in base 10, NaN when there is none
ParseInt(s) ==
    LET t == TrimLeft(s)
        signed == t # <<>> /\ Head(t) \in {"-", "+"}
        ds == LeadingDigits(IF signed THEN Tail(t) ELSE t)
    IN  IF ds = <<>> THEN NaN
        ELSE IF Head(t) = "-" THEN 0 - DigitsValue(ds)
        ELSE DigitsValue(ds)

\* a >= b and a <= b of JavaScript numbers
NumGeq(a, b) == a # NaN /\ b # NaN /\ a >= b

NumLeq(a, b) == a # NaN /\ b # NaN /\ a <= b

(***************************************************************************)
(* The products table.  A row: id, productName, category, discountedPrice  *)
(* (display text), rating (hundredths, or NoRating for SQL NULL).          *)
(***************************************************************************)
NoRating == 0 - 1

\* collation order of the identifiers in use; "X" names no stored product
IdOrder == <<"A", "B", "C", "D", "X">>

IdRank(id) == CHOOSE i \in DOMAIN IdOrder : IdOrder[i] = id

ProductsTable ==
    { [id |-> "A",
       productName |-> <<"H","e","a","d","p","h","o","n","e","s">>,
       category |-> <<"E","l","e","c","t","r","o","n","i","c","s","|",
                      "A","u","d","i","o","|",
                      "H","e","a","d","p","h","o","n","e","s">>,
       discountedPrice |-> <<"₹","3","9","9">>,
       rating |-> 450],
      [id |-> "B",
       productName |-> <<"P","h","o","n","e"," ","C","a","s","e">>,
       category |-> <<"E","l","e","c","t","r","o","n","i","c","s","|",
                      "M","o","b","i","l","e","s">>,
       discountedPrice |-> <<"₹","1",",","2","3","4">>,
       rating |-> NoRating],
      [id |-> "C",
       productName |-> <<"h","e","a","d","s","e","t">>,
       category |-> <<"E","l","e","c","t","r","o","n","i","c","s">>,
       discountedPrice |-> <<"₹","1",",","2","3","4">>,
       rating |-> 300],
      [id |-> "D",
       productName |-> <<"D","e","s","k"," ","L","a","m","p">>,
       category |-> <<"H","o","m","e","|","L","i","g","h","t","i","n","g">>,
       discountedPrice |-> <<"₹","4","5",".","5","0">>,
       rating |-> 450] }

ProductIds == { p.id : p \in ProductsTable }

RowOf(id) == CHOOSE p \in ProductsTable : p.id = id

(***************************************************************************)
(* Price normalizers.                                                      *)
(***************************************************************************)
\* s.replace(/[^0-9]/g, '')
RECURSIVE StripNonDigits(_)
StripNonDigits(s) ==
    IF s = <<>> THEN <<>>
    ELSE IF IsDigit(Head(s)) THEN <<Head(s)>> \o StripNonDigits(Tail(s))
    ELSE StripNonDigits(Tail(s))

\* parseInt(p.discountedPrice?.replace(/[^0-9]/g, '') || '0') on a present text
ClientPrice(text) ==
    LET stripped == StripNonDigits(text)
    IN  ParseInt(IF Truthy(stripped) THEN stripped ELSE <<"0">>)

\* the same expression on a price that may be null or undefined:
\* price = [present |-> BOOLEAN, text |-> characters]
NormalizePrice(price) ==
    IF price.present THEN ClientPrice(price.text) ELSE ParseInt(<<"0">>)

\* REPLACE(REPLACE(text, '₹', ''), ',', '')
RECURSIVE SqlReplaceGlyphs(_)
SqlReplaceGlyphs(s) ==
    IF s = <<>> THEN <<>>
    ELSE IF Head(s) \in {"₹", ","} THEN SqlReplaceGlyphs(Tail(s))
    ELSE <<Head(s)>> \o SqlReplaceGlyphs(Tail(s))

\* the text is digits, optionally a point and at most two more digits
IsNumericText(s) ==
    LET int == LeadingDigits(s)
        rest == SubSeq(s, Len(int) + 1, Len(s))
    IN  \/ int # <<>> /\ rest = <<>>
        \/ /\ rest # <<>>
           /\ Head(rest) = "."
           /\ LeadingDigits(Tail(rest)) = Tail(rest)
           /\ Len(rest) <= 3
           /\ Len(int) + Len(rest) > 1

SqlError == 0 - 2

\* CAST(REPLACE(REPLACE(text, '₹', ''), ',', '') AS NUMERIC), in hundredths;
\* SqlError when the store rejects the text
SqlPrice(text) ==
    LET s == SqlReplaceGlyphs(text)
        int == LeadingDigits(s)
        rest == SubSeq(s, Len(int) + 1, Len(s))
        frac == IF rest = <<>> THEN <<>> ELSE Tail(rest)
        frac2 == IF Len(frac) = 0 THEN <<"0", "0">>
                 ELSE IF Len(frac) = 1 THEN frac \o <<"0">>
                 ELSE frac
    IN  IF IsNumericText(s)
        THEN 100 * DigitsValue(int) + DigitsValue(frac2)
        ELSE SqlError

(***************************************************************************)
(* Request parameters travel as text: Number.toString on the client,       *)
(* parseInt / parseFloat on the server.                                    *)
(***************************************************************************)
\* n.toString() for a natural number
RECURSIVE ToText(_)
ToText(n) ==
    IF n < 10 THEN <<DigitChars[n + 1]>>
    ELSE ToText(n \div 10) \o <<DigitChars[(n % 10) + 1]>>

\* parseFloat(s) in hundredths: digits, optionally a point and digits
\* (two decimals kept); NaN when no number leads the text
ParseFloat(s) ==
    LET t == TrimLeft(s)
        int == LeadingDigits(t)
        rest == SubSeq(t, Len(int) + 1, Len(t))
        frac == IF rest # <<>> /\ Head(rest) = "." THEN LeadingDigits(Tail(rest)) ELSE <<>>
        frac2 == SubSeq(frac \o <<"0", "0">>, 1, 2)
    IN  IF int = <<>> /\ frac = <<>> THEN NaN
        ELSE 100 * DigitsValue(int) + DigitsValue(frac2)

\* mutant: the quotient rounded down
CeilDiv_Floor(a, b) == a \div b

\* Math.ceil(a / b) for b > 0
CeilDiv(a, b) == 0 - ((0 - a) \div b)

\* a || b on numbers: NaN and 0 are falsy
NumOr(a, b) == IF a = NaN \/ a = 0 THEN b ELSE a

(***************************************************************************)
(* DatabaseStorage.getProducts: predicate, order, limit / offset, count.   *)
(***************************************************************************)
\* the WHERE clause: every supplied condition holds of row p
WhereCondition(p, search, category, priceMin, priceMax, rating) ==
    /\ Truthy(search) => ILikeContains(p.productName, search)
    /\ Truthy(category) => ILikeContains(p.category, category)
    /\ Truthy(priceMin) => SqlPrice(p.discountedPrice) >= 100 * ParseInt(priceMin)
    /\ Truthy(priceMax) => SqlPrice(p.discountedPrice) <= 100 * ParseInt(priceMax)
    /\ Truthy(rating) => (p.rating # NoRating /\ p.rating >= ParseFloat(rating))

\* ORDER BY: row a may stand before row b.  NULL ratings sort as larger than
\* every rating (first when descending, last when ascending).
OrderedBefore(a, b, sortBy) ==
    IF sortBy = "price-low" THEN SqlPrice(a.discountedPrice) <= SqlPrice(b.discountedPrice)
    ELSE IF sortBy = "price-high" THEN SqlPrice(a.discountedPrice) >= SqlPrice(b.discountedPrice)
    ELSE IF sortBy \in {"rating", "rating-high"}
         THEN a.rating = NoRating \/ (b.rating # NoRating /\ a.rating >= b.rating)
    ELSE IF sortBy = "rating-low"
         THEN b.rating = NoRating \/ (a.rating # NoRating /\ a.rating <= b.rating)
    ELSE IdRank(a.id) >= IdRank(b.id)

\* all sequences that list every element of the set S once
RowOrders(S) ==
    { f \in [1..Cardinality(S) -> S] : \A i, j \in 1..Cardinality(S) : f[i] = f[j] => i = j }

\* the row orders the store may produce: rows with equal keys come in any order
OrderedRows(rows, sortBy) ==
    { o \in RowOrders(rows) :
        \A i, j \in 1..Len(o) : i < j => OrderedBefore(o[i], o[j], sortBy) }

\* mutant: an offset behind the last row is pulled back to the first row
LimitOffset_Clamped(o, limit, offset) ==
    LET from == IF offset >= Len(o) THEN 0 ELSE offset
    IN  SubSeq(o, from + 1, IF from + limit < Len(o) THEN from + limit ELSE Len(o))

\* LIMIT limit OFFSET offset over an ordered row sequence
LimitOffset(o, limit, offset) ==
    SubSeq(o, offset + 1, IF offset + limit < Len(o) THEN offset + limit ELSE Len(o))

\* the query raises: a price is cast that the store cannot read as NUMERIC
QueryFails(sortBy, priceMin, priceMax) ==
    /\ Truthy(priceMin) \/ Truthy(priceMax) \/ sortBy \in {"price-low", "price-high"}
    /\ \E p \in ProductsTable : SqlPrice(p.discountedPrice) = SqlError

\* the rows the WHERE clause keeps
MatchingRows(search, category, priceMin, priceMax, rating) ==
    { p \in ProductsTable : WhereCondition(p, search, category, priceMin, priceMax, rating) }

\* getProducts when the store lists the matching rows in the order o, one
\* of OrderedRows(MatchingRows(..), sortBy): the page query and the count query
getProducts(o, page, limit, search, category, sortBy, priceMin, priceMax, rating) ==
    [products |-> LimitOffset(o, limit, (page - 1) * limit),
     total |-> Cardinality(MatchingRows(search, category, priceMin, priceMax, rating))]

(***************************************************************************)
(* GET /api/products.  A query: page and limit as text, the filters and    *)
(* the sort key as given.                                                  *)
(***************************************************************************)
DefaultPage == 1

DefaultLimit == 20

\* the row orders the store may use for the query
StoreOrders(query) ==
    OrderedRows(MatchingRows(query.search, query.category, query.priceMin,
                             query.priceMax, query.rating), query.sortBy)

\* the response of the route when the store lists the rows in the order o; the
\* store refuses a negative LIMIT or OFFSET, and the catch block answers 500
\* with the message of what was thrown
GetApiProducts(query, o) ==
    LET page == NumOr(ParseInt(query.page), DefaultPage)
        limit == NumOr(ParseInt(query.limit), DefaultLimit)
        result == getProducts(o, page, limit, query.search, query.category, query.sortBy,
                              query.priceMin, query.priceMax, query.rating)
    IN  IF QueryFails(query.sortBy, query.priceMin, query.priceMax)
        THEN [status |-> 500, error |-> "invalid input syntax for type numeric"]
        ELSE IF limit < 0
        THEN [status |-> 500, error |-> "LIMIT must not be negative"]
        ELSE IF (page - 1) * limit < 0
        THEN [status |-> 500, error |-> "OFFSET must not be negative"]
        ELSE [status |-> 200,
              products |-> result.products,
              pagination |-> [page |-> page,
                              limit |-> limit,
                              total |-> result.total,
                              totalPages |-> CeilDiv(result.total, limit)]]

(***************************************************************************)
(* GET /api/products/by-ids and the in-memory filter and sort that the     *)
(* route and the hook share.                                               *)
(***************************************************************************)
\* the text of a decimal(3,2) rating as the store driver returns it
RatingText(r) ==
    ToText(r \div 100) \o <<".">> \o <<DigitChars[((r % 100) \div 10) + 1]>>
        \o <<DigitChars[(r % 10) + 1]>>

\* parseFloat(p.rating || '0')
RatingNumber(p) ==
    ParseFloat(IF p.rating = NoRating THEN <<"0">> ELSE RatingText(p.rating))

\* p.category === category
CategoryFilter(p, category) == p.category = category

\* price >= min && price <= max, an absent bound being 0 or unbounded
PriceFilter(p, priceMin, priceMax) ==
    LET price == ClientPrice(p.discountedPrice)
    IN  /\ NumGeq(price, IF Truthy(priceMin) THEN ParseInt(priceMin) ELSE 0)
        /\ Truthy(priceMax) => NumLeq(price, ParseInt(priceMax))

\* productRating >= parseFloat(rating)
RatingFilter(p, rating) == NumGeq(RatingNumber(p), ParseFloat(rating))

\* the three filter passes over a product list, each applied when its
\* parameter is supplied
FilterProducts(list, category, priceMin, priceMax, rating) ==
    LET Keep(p) ==
            /\ Truthy(category) => CategoryFilter(p, category)
            /\ (Truthy(priceMin) \/ Truthy(priceMax)) => PriceFilter(p, priceMin, priceMax)
            /\ Truthy(rating) => RatingFilter(p, rating)
    IN  SelectSeq(list, Keep)

\* the comparator of filteredProducts.sort: negative, zero or positive
CompareProducts(a, b, sortBy) ==
    IF sortBy = "price_asc"
    THEN ClientPrice(a.discountedPrice) - ClientPrice(b.discountedPrice)
    ELSE IF sortBy = "price_desc"
    THEN ClientPrice(b.discountedPrice) - ClientPrice(a.discountedPrice)
    ELSE IF sortBy = "rating"
    THEN RatingNumber(b) - RatingNumber(a)
    ELSE 0

\* x put into an ordered list behind every element that does not compare
\* greater than it
RECURSIVE InsertStable(_, _, _)
InsertStable(x, list, sortBy) ==
    IF list = <<>> THEN <<x>>
    ELSE IF CompareProducts(Head(list), x, sortBy) > 0 THEN <<x>> \o list
    ELSE <<Head(list)>> \o InsertStable(x, Tail(list), sortBy)

\* Array.prototype.sort with the comparator above: a stable sort
RECURSIVE SortProducts(_, _)
SortProducts(list, sortBy) ==
    IF list = <<>> THEN <<>>
    ELSE InsertStable(list[Len(list)], SortProducts(SubSeq(list, 1, Len(list) - 1), sortBy), sortBy)

\* position of id in the list ids, first occurrence
IndexOf(ids, id) == CHOOSE i \in DOMAIN ids : ids[i] = id /\ \A j \in 1..(i - 1) : ids[j] # id

\* the sort of the route when no sort key is given: by position in ids
RECURSIVE SortByIdOrder(_, _)
SortByIdOrder(list, ids) ==
    LET InsertById(x, sorted) ==
            LET before == SelectSeq(sorted, LAMBDA y : IndexOf(ids, y.id) <= IndexOf(ids, x.id))
                after == SelectSeq(sorted, LAMBDA y : IndexOf(ids, y.id) > IndexOf(ids, x.id))
            IN  before \o <<x>> \o after
    IN  IF list = <<>> THEN <<>>
        ELSE InsertById(list[Len(list)], SortByIdOrder(SubSeq(list, 1, Len(list) - 1), ids))

\* storage.getProductsByIds: the stored rows among the identifiers, in any order
getProductsByIds(productIds) ==
    RowOrders({ p \in ProductsTable : \E i \in DOMAIN productIds : productIds[i] = p.id })

\* the route on the rows the store returned.  query.ids is the list that the
\* comma-separated parameter holds.
GetApiProductsByIds(query, rows) ==
    LET productIds == SelectSeq(query.ids, LAMBDA id : id # "")
        filteredProducts == FilterProducts(rows, query.category, query.priceMin,
                                           query.priceMax, query.rating)
    IN  IF query.ids = <<>> THEN [status |-> 400, error |-> "Product IDs are required"]
        ELSE IF productIds = <<>> THEN [status |-> 200, products |-> <<>>]
        ELSE [status |-> 200,
              products |-> IF query.sortBy # ""
                           THEN SortProducts(filteredProducts, query.sortBy)
                           ELSE SortByIdOrder(filteredProducts, productIds)]

(***************************************************************************)
(* useProducts.queryFn.                                                    *)
(***************************************************************************)
\* Array.prototype.slice(start, end) for 0 <= start
Slice(list, start, end) ==
    SubSeq(list, start + 1, IF end < Len(list) THEN end ELSE Len(list))

\* mutant: the fetched rows are kept in the order the route returned them
OrderByIds_FetchOrder(productIds, products) == products

\* productIds.map(id => productMap.get(id)).filter(p => p !== undefined)
OrderByIds(productIds, products) ==
    LET Found(id) == \E i \in DOMAIN products : products[i].id = id
        Get(id) == products[CHOOSE i \in DOMAIN products :
                               products[i].id = id /\ \A j \in (i + 1)..Len(products) : products[j].id # id]
        known == SelectSeq(productIds, Found)
    IN  [i \in DOMAIN known |-> Get(known[i])]

\* the filtered and sorted list built from the candidates and the fetched rows
MergeProducts(a, productIds, products) ==
    LET filteredProducts == FilterProducts(OrderByIds(productIds, products), a.category,
                                           a.priceMin, a.priceMax, a.rating)
    IN  IF a.sortBy # "" THEN SortProducts(filteredProducts, a.sortBy) ELSE filteredProducts

\* mutant: the page starts one page too far
PaginateProducts_NextPage(a, filteredProducts) ==
    LET startIdx == a.page * a.limit
    IN  [products |-> Slice(filteredProducts, startIdx, startIdx + a.limit),
         pagination |-> [page |-> a.page,
                         limit |-> a.limit,
                         total |-> Len(filteredProducts),
                         totalPages |-> CeilDiv(Len(filteredProducts), a.limit)]]

\* the page cut from the filtered list, with its pagination
PaginateProducts(a, filteredProducts) ==
    LET startIdx == (a.page - 1) * a.limit
    IN  [products |-> Slice(filteredProducts, startIdx, startIdx + a.limit),
         pagination |-> [page |-> a.page,
                         limit |-> a.limit,
                         total |-> Len(filteredProducts),
                         totalPages |-> CeilDiv(Len(filteredProducts), a.limit)]]

\* mutant: an empty result reported as one page
EmptyPage_OnePage(a) ==
    [products |-> <<>>,
     pagination |-> [page |-> a.page, limit |-> a.limit, total |-> 0, totalPages |-> 1]]

\* what is returned when the semantic service names no product
EmptyPage(a) ==
    [products |-> <<>>,
     pagination |-> [page |-> a.page, limit |-> a.limit, total |-> 0, totalPages |-> 0]]

\* the query string of /api/products/by-ids
ByIdsParams(a, productIds) ==
    [ids |-> productIds, category |-> a.category, sortBy |-> a.sortBy,
     priceMin |-> a.priceMin, priceMax |-> a.priceMax, rating |-> a.rating]

\* mutant: the fallback forgets the search text
ProductsParams_NoSearch(a) ==
    [page |-> ToText(a.page), limit |-> ToText(a.limit), search |-> <<>>,
     category |-> a.category, sortBy |-> a.sortBy,
     priceMin |-> a.priceMin, priceMax |-> a.priceMax, rating |-> a.rating]

\* the query string of /api/products
ProductsParams(a) ==
    [page |-> ToText(a.page), limit |-> ToText(a.limit), search |-> a.search,
     category |-> a.category, sortBy |-> a.sortBy,
     priceMin |-> a.priceMin, priceMax |-> a.priceMax, rating |-> a.rating]

(***************************************************************************)
(* Inputs.                                                                 *)
(***************************************************************************)
\* the first page, a later page, a page beyond every result
Pages == { 1, 2, 999 }

Limits == 1..MaxLimit

Searches == { <<>>, <<" ">>, <<"p","h","o","n","e">> }

Categories == { <<>>, <<"E","l","e","c","t","r","o","n","i","c","s">> }

\* no key, the keys of the listing's sort selector, the keys of the comparator
SortKeys == { "", "relevance", "price-low", "price-high", "rating-high", "rating-low",
              "newest", "price_asc", "price_desc", "rating" }

PriceMins == { <<>>, <<"4","0","0">> }

PriceMaxs == { <<>>, <<"1","2","3","4">> }

Ratings == { <<>>, <<"4">> }

\* every combination of the inputs above, and the browsing requests whose
\* category text is a character that LIKE reads as a wildcard
Requests ==
    [page : Pages, limit : Limits, search : Searches, category : Categories,
     sortBy : SortKeys, priceMin : PriceMins, priceMax : PriceMaxs, rating : Ratings]
    \cup [page : {1}, limit : Limits, search : {<<>>}, category : {<<"_">>, <<"%">>},
          sortBy : {""}, priceMin : {<<>>}, priceMax : {<<>>}, rating : {<<>>}]

\* identifiers the semantic service may name; "X" is not in the catalog
CandidateIds == { "A", "B", "C", "X" }

\* ranked candidate lists: each identifier at most once
CandidateLists ==
    UNION { { f \in [1..n -> CandidateIds] : \A i, j \in 1..n : f[i] = f[j] => i = j } :
            n \in 0..MaxCands }

\* characters of the price texts handed to the normalizer
PriceChars == { "₹", ",", ".", "1", "5" }

\* the prices handed to the normalizer: a missing price, every text of at most
\* MaxLen characters, and two prices of the import format
PriceInputs ==
    { [present |-> FALSE, text |-> <<>>] }
    \cup { [present |-> TRUE, text |-> t] :
             t \in UNION { [1..n -> PriceChars] : n \in 0..MaxLen } }
    \cup { [present |-> TRUE, text |-> <<"₹","1",",","2","3","4">>],
           [present |-> TRUE, text |-> <<"₹","3","9","9",".","5","0">>] }

(***************************************************************************)
(* State: one run of queryFn, and one evaluation of the price normalizer.  *)
(***************************************************************************)
VARIABLES
    pc,          \* "idle", "semantic", "waiting", "regular", "done"
    args,        \* the arguments of useProducts
    semantic,    \* what the semantic search call gave: kind and candidate ids
    path,        \* how the result was produced: "hybrid", "empty", "regular"
    resultSet,   \* the filtered and sorted list the returned page was cut from
    outcome,     \* what queryFn returned or threw
    price,       \* the discountedPrice under normalization
    normalized,  \* its normalized value, or NaN while not computed
    req,         \* a raw request to a catalog route, and what the store does on it
    res,         \* the response of the route, once it has answered
    cart,        \* the cart_items rows: id, userId, productId, quantity
    orders,      \* the orders rows, each with its order_items
    served,      \* the number of requests the server has taken up
    call,        \* per request being served: the handler's position and locals
    sessions,    \* the sessions rows: token, userId, expiresAt
    apiTokens,   \* the api_tokens rows: token, userId, lastUsedAt
    now,         \* the clock, in days
    history      \* for the record: the sessions ever created, the tokens logged out

vars == <<pc, args, semantic, path, resultSet, outcome, price, normalized,
          req, res, cart, orders, served, call, sessions, apiTokens, now, history>>

listing == <<pc, args, semantic, path, resultSet, outcome>>

normalizer == <<price, normalized>>

routes == <<req, res>>

shop == <<cart, orders, served, call>>

auth == <<sessions, apiTokens, now, history>>

\* what a run of queryFn leaves alone
others == <<normalizer, routes, shop, auth>>

NoArgs ==
    [page |-> 1, limit |-> 1, search |-> <<>>, category |-> <<>>, sortBy |-> "",
     priceMin |-> <<>>, priceMax |-> <<>>, rating |-> <<>>]

InitListing ==
    /\ pc = "idle"
    /\ args = NoArgs
    /\ semantic = [kind |-> "none", ids |-> <<>>]
    /\ path = "none"
    /\ resultSet = <<>>
    /\ outcome = [ok |-> FALSE, pending |-> TRUE]

NoRequest == [route |-> "none"]

NoResponse == [status |-> 0]

InitRoutes ==
    /\ req = NoRequest
    /\ res = NoResponse

InitPrice ==
    /\ price = [present |-> FALSE, text |-> <<>>]
    /\ normalized = NaN

\* the requests the server works on at the same time
Procs == 1..2

Idle == [pc |-> "idle"]

InitShop ==
    /\ cart = {}
    /\ orders = {}
    /\ served = 0
    /\ call = [p \in Procs |-> Idle]

InitAuth ==
    /\ sessions = {}
    /\ apiTokens = {}
    /\ now = 0
    /\ history = [issued |-> {}, loggedOut |-> {}]

Init ==
    /\ InitListing
    /\ InitPrice
    /\ InitRoutes
    /\ InitShop
    /\ InitAuth

\* queryFn is called: semantic search when the search text is not blank
Query(a) ==
    /\ pc = "idle"
    /\ args' = a
    /\ pc' = IF Truthy(a.search) /\ Truthy(Trim(a.search)) THEN "semantic" ELSE "regular"
    /\ UNCHANGED <<semantic, path, resultSet, outcome, others>>

\* the semantic search call fails in transport: the catch block falls through
SemanticThrows ==
    /\ pc = "semantic"
    /\ semantic' = [kind |-> "error", ids |-> <<>>]
    /\ pc' = "regular"
    /\ UNCHANGED <<args, path, resultSet, outcome, others>>

\* the semantic service accepts the call and never answers: the await of the
\* fetch, which carries no timeout and no abort signal, never settles
SemanticSilent ==
    /\ pc = "semantic"
    /\ semantic' = [kind |-> "silent", ids |-> <<>>]
    /\ pc' = "waiting"
    /\ UNCHANGED <<args, path, resultSet, outcome, others>>

\* the semantic search answers with a non-success status: thrown and caught
SemanticNotOk ==
    /\ pc = "semantic"
    /\ semantic' = [kind |-> "notOk", ids |-> <<>>]
    /\ pc' = "regular"
    /\ UNCHANGED <<args, path, resultSet, outcome, others>>

\* the semantic search answers with the ranked candidates ids: the empty page
\* when there is none, else the rows are fetched by identifier, ordered,
\* filtered, sorted and cut; a failed fetch is thrown and caught
SemanticOk(ids) ==
    /\ pc = "semantic"
    /\ semantic' = [kind |-> "ok", ids |-> ids]
    /\ IF Len(ids) = 0
       THEN /\ outcome' = [ok |-> TRUE, data |-> EmptyPage(args)]
            /\ path' = "empty"
            /\ pc' = "done"
            /\ UNCHANGED resultSet
       ELSE \E rows \in getProductsByIds(ids) :
              LET response == GetApiProductsByIds(ByIdsParams(args, ids), rows)
              IN  IF response.status = 200
                  THEN LET filteredProducts == MergeProducts(args, ids, response.products)
                       IN  /\ resultSet' = filteredProducts
                           /\ outcome' = [ok |-> TRUE,
                                          data |-> PaginateProducts(args, filteredProducts)]
                           /\ path' = "hybrid"
                           /\ pc' = "done"
                  ELSE /\ pc' = "regular"
                       /\ UNCHANGED <<resultSet, outcome, path>>
    /\ UNCHANGED <<args, others>>

\* regular browsing, and the fallback: GET /api/products
FetchProducts ==
    /\ pc = "regular"
    /\ \E o \in StoreOrders(ProductsParams(args)) :
          LET response == GetApiProducts(ProductsParams(args), o)
          IN  IF response.status = 200
              THEN /\ outcome' = [ok |-> TRUE,
                                  data |-> [products |-> response.products,
                                            pagination |-> response.pagination]]
                   /\ resultSet' = o
              ELSE /\ outcome' = [ok |-> FALSE, error |-> "Failed to fetch products"]
                   /\ UNCHANGED resultSet
    /\ path' = "regular"
    /\ pc' = "done"
    /\ UNCHANGED <<args, semantic, others>>

\* any call of the hook
UseProducts == pc = "idle" /\ \E a \in Requests : Query(a)

\* any successful answer of the semantic service
SemanticResponds == pc = "semantic" /\ \E ids \in CandidateLists : SemanticOk(ids)

Next ==
    \/ UseProducts
    \/ SemanticThrows
    \/ SemanticSilent
    \/ SemanticNotOk
    \/ SemanticResponds
    \/ FetchProducts

Spec == Init /\ [][Next]_vars

(***************************************************************************)
(* The price normalizer on its own: every input, normalized once.          *)
(***************************************************************************)
InitNormalizer ==
    /\ InitListing
    /\ InitRoutes
    /\ InitShop
    /\ InitAuth
    /\ price \in PriceInputs
    /\ normalized = NaN

Normalize ==
    /\ normalized = NaN
    /\ normalized' = NormalizePrice(price)
    /\ UNCHANGED <<price, listing, routes, shop, auth>>

NextNormalizer == Normalize

SpecNormalizer == InitNormalizer /\ [][NextNormalizer]_vars

(***************************************************************************)
(* The cart and the orders.  Every request below has passed requireAuth    *)
(* as the user it names.  A handler runs one statement of the store at a   *)
(* time; between two statements the other request may run.                 *)
(***************************************************************************)
\* requests served in one run
MaxRequests == 3

\* requests served in one run of two requests at a time
MaxRaceRequests == 4

ShopUsers == { "u1", "u2" }

\* the products a cart request names; "X" is not in the catalog
CartProducts == { "A", "D", "X" }

\* the quantities a cart request carries
Quantities == { 0 - 1, 0, 1, 2 }

\* an identifier no row of the set carries: what gen_random_uuid() gives
FreshId(rows) == CHOOSE id \in 1..(Cardinality(rows) + 1) : \A r \in rows : r.id # id

\* no row: what a select that finds nothing destructures to
NoItem == [id |-> 0]

\* storage.getProduct
getProduct(id) == IF id \in ProductIds THEN RowOf(id) ELSE NoItem

\* WHERE user_id = userId AND product_id = productId
CartRowsOf(rows, userId, productId) ==
    { r \in rows : r.userId = userId /\ r.productId = productId }

\* mutant: the select finds no row
ExistingItems_None(rows, userId, productId) == { NoItem }

\* the first row of the select in addToCart: any matching row, or none
ExistingItems(rows, userId, productId) ==
    IF CartRowsOf(rows, userId, productId) = {} THEN { NoItem }
    ELSE CartRowsOf(rows, userId, productId)

\* UPDATE cart_items SET quantity = .. WHERE user_id = .. AND product_id = ..
SetQuantity(rows, userId, productId, quantity) ==
    { IF r.userId = userId /\ r.productId = productId
      THEN [r EXCEPT !.quantity = quantity] ELSE r : r \in rows }

\* INSERT INTO cart_items
InsertCartItem(rows, id, userId, productId, quantity) ==
    rows \cup { [id |-> id, userId |-> userId, productId |-> productId, quantity |-> quantity] }

\* storage.removeFromCart
removeFromCart(rows, userId, productId) == rows \ CartRowsOf(rows, userId, productId)

\* storage.clearCart
clearCart(rows, userId) == { r \in rows : r.userId # userId }

\* storage.updateCartItem
updateCartItem(rows, userId, productId, quantity) ==
    IF quantity <= 0 THEN removeFromCart(rows, userId, productId)
    ELSE SetQuantity(rows, userId, productId, quantity)

\* storage.getCartItems: the user's rows joined with their products
getCartItems(rows, userId) ==
    { r \in rows : r.userId = userId /\ r.productId \in ProductIds }

\* s.replace(/[^\d.]/g, '')
RECURSIVE StripToNumberChars(_)
StripToNumberChars(s) ==
    IF s = <<>> THEN <<>>
    ELSE IF IsDigit(Head(s)) \/ Head(s) = "." THEN <<Head(s)>> \o StripToNumberChars(Tail(s))
    ELSE StripToNumberChars(Tail(s))

\* parseFloat(item.product.discountedPrice.replace(/[^\d.]/g, '')), in hundredths
CheckoutPrice(text) == ParseFloat(StripToNumberChars(text))

\* mutant: the total of an item is its unit price
OrderItemsData_UnitPrice(items) ==
    { [cartItem |-> r.id,
       productId |-> r.productId,
       price |-> RowOf(r.productId).discountedPrice,
       quantity |-> r.quantity,
       totalPrice |-> CheckoutPrice(RowOf(r.productId).discountedPrice)] :
        r \in items }

\* orderItemsData: one order item per cart item
OrderItemsData(items) ==
    { [cartItem |-> r.id,
       productId |-> r.productId,
       price |-> RowOf(r.productId).discountedPrice,
       quantity |-> r.quantity,
       totalPrice |-> CheckoutPrice(RowOf(r.productId).discountedPrice) * r.quantity] :
        r \in items }

\* cartItems.reduce((total, item) => total + price * item.quantity, 0), in hundredths
RECURSIVE TotalAmount(_)
TotalAmount(items) ==
    IF items = {} THEN 0
    ELSE LET r == CHOOSE x \in items : TRUE
         IN  CheckoutPrice(RowOf(r.productId).discountedPrice) * r.quantity
                 + TotalAmount(items \ {r})

\* storage.createOrder: the order row with its order items; invoice_url has
\* no default and is null ("" here)
createOrder(rows, userId, totalAmount, items) ==
    rows \cup { [id |-> Cardinality(rows) + 1, userId |-> userId,
                 totalAmount |-> totalAmount, status |-> "completed", items |-> items,
                 invoiceUrl |-> ""] }

\* the sum of the quantities of a set of cart rows
RECURSIVE SumQuantity(_)
SumQuantity(rows) ==
    IF rows = {} THEN 0
    ELSE LET r == CHOOSE x \in rows : TRUE IN r.quantity + SumQuantity(rows \ {r})

\* the other request is inside addToCart for the same user and product
AddInFlight(p, userId, productId) ==
    \E q \in Procs \ {p} :
        /\ call[q].pc = "read"
        /\ call[q].userId = userId
        /\ call[q].productId = productId

\* addToCart up to its select.  Kept with the call, for the record only:
\* whether the server was serving nothing else when the call began (alone),
\* whether it began while another addToCart for the pair was past its select
\* (overlaps), the number of the request (began), and the quantity the cart
\* held for the pair before the calls now in flight began (prior).
AddToCartSelect(p, route, userId, productId, quantity) ==
    \E existing \in ExistingItems(cart, userId, productId) :
        call' = [call EXCEPT ![p] =
                    [pc |-> "read", op |-> route, userId |-> userId,
                     productId |-> productId, quantity |-> quantity,
                     existing |-> existing,
                     began |-> served + 1,
                     alone |-> \A q \in Procs \ {p} : call[q].pc = "idle",
                     overlaps |-> AddInFlight(p, userId, productId),
                     prior |-> IF AddInFlight(p, userId, productId)
                               THEN call[CHOOSE q \in Procs \ {p} : call[q].pc = "read"].prior
                               ELSE SumQuantity(CartRowsOf(cart, userId, productId))]]

\* POST /api/cart: the body is parsed (productId a string, quantity an
\* integer), then addToCart begins
PostCart(p, userId, productId, quantity) ==
    /\ call[p].pc = "idle"
    /\ AddToCartSelect(p, "POST /api/cart", userId, productId, quantity)
    /\ UNCHANGED <<cart, orders>>

\* POST /cart/add/:productId: quantity = req.body.quantity || 1, 404 for an
\* unknown product, then addToCart begins
CartAdd(p, userId, productId, quantity) ==
    /\ call[p].pc = "idle"
    /\ IF getProduct(productId) = NoItem
       THEN call' = [call EXCEPT ![p] = [pc |-> "done", op |-> "POST /cart/add", userId |-> userId,
                                          status |-> 404, error |-> "Product not found"]]
       ELSE AddToCartSelect(p, "POST /cart/add", userId, productId, NumOr(quantity, 1))
    /\ UNCHANGED <<cart, orders>>

\* addToCart after its select: the update of the quantity, or the insert
\* (which the store refuses for a product it does not hold)
AddToCartWrite(p) ==
    /\ call[p].pc = "read"
    /\ LET c == call[p]
       IN  IF c.existing # NoItem
           THEN /\ cart' = SetQuantity(cart, c.userId, c.productId,
                                       c.existing.quantity + c.quantity)
                /\ call' = [call EXCEPT ![p] = [c EXCEPT !.pc = "done"] @@ [status |-> 200]]
           ELSE IF c.productId \notin ProductIds
           THEN /\ call' = [call EXCEPT ![p] = [c EXCEPT !.pc = "done"] @@ [status |-> 400]]
                /\ UNCHANGED cart
           ELSE /\ cart' = InsertCartItem(cart, FreshId(cart), c.userId, c.productId, c.quantity)
                /\ call' = [call EXCEPT ![p] = [c EXCEPT !.pc = "done"] @@ [status |-> 200]]
    /\ UNCHANGED <<orders, served>>

\* PUT /api/cart/:productId with parseInt(req.body.quantity) = quantity
PutCart(p, userId, productId, quantity) ==
    /\ call[p].pc = "idle"
    /\ IF quantity = NaN \/ quantity < 0
       THEN /\ call' = [call EXCEPT ![p] = [pc |-> "done", op |-> "PUT /api/cart", userId |-> userId,
                                             status |-> 400, error |-> "Invalid quantity"]]
            /\ UNCHANGED cart
       ELSE /\ cart' = updateCartItem(cart, userId, productId, quantity)
            /\ call' = [call EXCEPT ![p] = [pc |-> "done", op |-> "PUT /api/cart", userId |-> userId,
                                             status |-> 200]]
    /\ UNCHANGED orders

\* DELETE /api/cart/:productId and DELETE /cart/remove/:productId
DeleteCartItem(p, userId, productId) ==
    /\ call[p].pc = "idle"
    /\ cart' = removeFromCart(cart, userId, productId)
    /\ call' = [call EXCEPT ![p] = [pc |-> "done", op |-> "DELETE /api/cart/:productId",
                                     userId |-> userId, status |-> 200]]
    /\ UNCHANGED orders

\* DELETE /api/cart
DeleteCart(p, userId) ==
    /\ call[p].pc = "idle"
    /\ cart' = clearCart(cart, userId)
    /\ call' = [call EXCEPT ![p] = [pc |-> "done", op |-> "DELETE /api/cart",
                                     userId |-> userId, status |-> 200]]
    /\ UNCHANGED orders

CheckoutRoutes == { "POST /api/checkout", "POST /orders/completeOrder" }

\* mutant: the order is made of whatever the cart holds, nothing included
Checkout_NoEmptyTest(p, route, userId) ==
    /\ call[p].pc = "idle"
    /\ call' = [call EXCEPT ![p] = [pc |-> "items", op |-> route, userId |-> userId,
                                     began |-> served + 1,
                                     cartItems |-> getCartItems(cart, userId)]]
    /\ UNCHANGED <<cart, orders>>

\* the two checkout routes up to the emptiness test of the cart; began is
\* kept for the record only: the number of the request
Checkout(p, route, userId) ==
    /\ call[p].pc = "idle"
    /\ LET cartItems == getCartItems(cart, userId)
       IN  call' = [call EXCEPT ![p] =
                      IF Cardinality(cartItems) = 0
                      THEN [pc |-> "done", op |-> route, userId |-> userId,
                            status |-> 400, error |-> "Cart is empty"]
                      ELSE [pc |-> "items", op |-> route, userId |-> userId,
                            began |-> served + 1, cartItems |-> cartItems]]
    /\ UNCHANGED <<cart, orders>>

\* storage.createOrder with the total and the order items of the cart read
CreateOrder(p) ==
    /\ call[p].pc = "items"
    /\ orders' = createOrder(orders, call[p].userId, TotalAmount(call[p].cartItems),
                             OrderItemsData(call[p].cartItems))
    /\ call' = [call EXCEPT ![p].pc = "ordered"]
    /\ UNCHANGED <<cart, served>>

\* storage.clearCart after the order, and the answer
ClearCartAfterOrder(p) ==
    /\ call[p].pc = "ordered"
    /\ cart' = clearCart(cart, call[p].userId)
    /\ call' = [call EXCEPT ![p] = [call[p] EXCEPT !.pc = "done"] @@ [status |-> 200]]
    /\ UNCHANGED <<orders, served>>

\* the response is sent; the server takes the next request
Return(p) ==
    /\ call[p].pc = "done"
    /\ call' = [call EXCEPT ![p] = Idle]
    /\ UNCHANGED <<cart, orders, served>>

\* the server takes up a request
TakeUp(max) ==
    /\ served < max
    /\ served' = served + 1

AddRequest(p) ==
    \E u \in ShopUsers, id \in CartProducts, n \in Quantities :
        \/ PostCart(p, u, id, n)
        \/ CartAdd(p, u, id, n)

ChangeRequest(p) ==
    \E u \in ShopUsers :
        \/ \E id \in CartProducts : \/ DeleteCartItem(p, u, id)
                                    \/ \E n \in Quantities \cup {NaN} : PutCart(p, u, id, n)
        \/ DeleteCart(p, u)

CheckoutRequest(p) == \E u \in ShopUsers, route \in CheckoutRoutes : Checkout(p, route, u)

\* one request at a time
NextCart ==
    \/ TakeUp(MaxRequests) /\ AddRequest(1) /\ UNCHANGED <<listing, normalizer, routes, auth>>
    \/ TakeUp(MaxRequests) /\ ChangeRequest(1) /\ UNCHANGED <<listing, normalizer, routes, auth>>
    \/ TakeUp(MaxRequests) /\ CheckoutRequest(1) /\ UNCHANGED <<listing, normalizer, routes, auth>>
    \/ AddToCartWrite(1) /\ UNCHANGED <<listing, normalizer, routes, auth>>
    \/ CreateOrder(1) /\ UNCHANGED <<listing, normalizer, routes, auth>>
    \/ ClearCartAfterOrder(1) /\ UNCHANGED <<listing, normalizer, routes, auth>>
    \/ Return(1) /\ UNCHANGED <<listing, normalizer, routes, auth>>

SpecCart == Init /\ [][NextCart]_vars

\* what the two requests served at the same time ask for
RaceUsers == { "u1" }

RaceProducts == { "A" }

RaceQuantities == { 1, 2 }

RaceRequest(p) ==
    \E u \in RaceUsers :
        \/ \E id \in RaceProducts, n \in RaceQuantities : PostCart(p, u, id, n) \/ CartAdd(p, u, id, n)
        \/ \E route \in CheckoutRoutes : Checkout(p, route, u)

\* two requests at a time, their statements interleaved
NextRace ==
    \/ \E p \in Procs : /\ TakeUp(MaxRaceRequests) /\ RaceRequest(p)
                        /\ UNCHANGED <<listing, normalizer, routes, auth>>
    \/ \E p \in Procs : AddToCartWrite(p) /\ UNCHANGED <<listing, normalizer, routes, auth>>
    \/ \E p \in Procs : CreateOrder(p) /\ UNCHANGED <<listing, normalizer, routes, auth>>
    \/ \E p \in Procs : ClearCartAfterOrder(p) /\ UNCHANGED <<listing, normalizer, routes, auth>>
    \/ \E p \in Procs : Return(p) /\ UNCHANGED <<listing, normalizer, routes, auth>>

SpecRace == Init /\ [][NextRace]_vars

(***************************************************************************)
(* The routes of one order.  One request at a time.                        *)
(***************************************************************************)
\* requests served in one run of the order routes
MaxOrderRequests == 4

\* storage.getOrder: the order of that id, or none
getOrder(rows, orderId) ==
    IF \E o \in rows : o.id = orderId
    THEN CHOOSE o \in rows : o.id = orderId
    ELSE NoItem

\* storage.updateOrderInvoiceUrl: UPDATE orders SET invoice_url = .. WHERE id = ..
updateOrderInvoiceUrl(rows, orderId, invoiceUrl) ==
    { IF o.id = orderId THEN [o EXCEPT !.invoiceUrl = invoiceUrl] ELSE o : o \in rows }

\* GET /api/orders/:orderId
GetOrder(p, userId, orderId) ==
    /\ call[p].pc = "idle"
    /\ LET order == getOrder(orders, orderId)
       IN  call' = [call EXCEPT ![p] =
                      IF order = NoItem
                      THEN [pc |-> "done", op |-> "GET /api/orders/:orderId", userId |-> userId,
                            orderId |-> orderId, status |-> 404, error |-> "Order not found"]
                      ELSE IF order.userId # userId
                      THEN [pc |-> "done", op |-> "GET /api/orders/:orderId", userId |-> userId,
                            orderId |-> orderId, status |-> 403, error |-> "Unauthorized"]
                      ELSE [pc |-> "done", op |-> "GET /api/orders/:orderId", userId |-> userId,
                            orderId |-> orderId, status |-> 200, body |-> order]]
    /\ UNCHANGED <<cart, orders>>

\* POST /api/orders/:orderId/invoice with req.body.invoiceUrl = invoiceUrl
\* ("" when the body has none)
PostInvoice(p, userId, orderId, invoiceUrl) ==
    /\ call[p].pc = "idle"
    /\ IF invoiceUrl = ""
       THEN /\ call' = [call EXCEPT ![p] =
                          [pc |-> "done", op |-> "POST /api/orders/:orderId/invoice",
                           userId |-> userId, orderId |-> orderId,
                           status |-> 400, error |-> "Invoice URL is required"]]
            /\ UNCHANGED orders
       ELSE /\ orders' = updateOrderInvoiceUrl(orders, orderId, invoiceUrl)
            /\ call' = [call EXCEPT ![p] =
                          [pc |-> "done", op |-> "POST /api/orders/:orderId/invoice",
                           userId |-> userId, orderId |-> orderId, status |-> 200]]
    /\ UNCHANGED cart

\* a user puts a product into the cart, checks out, reads an order or sets
\* the invoice URL of an order; order 3 is never created
NextOrders ==
    \/ TakeUp(MaxOrderRequests) /\ (\E u \in ShopUsers, id \in {"A", "D"} : PostCart(1, u, id, 1))
          /\ UNCHANGED <<listing, normalizer, routes, auth>>
    \/ TakeUp(MaxOrderRequests) /\ (\E u \in ShopUsers : Checkout(1, "POST /api/checkout", u))
          /\ UNCHANGED <<listing, normalizer, routes, auth>>
    \/ TakeUp(MaxOrderRequests) /\ (\E u \in ShopUsers, o \in 1..3 : GetOrder(1, u, o))
          /\ UNCHANGED <<listing, normalizer, routes, auth>>
    \/ TakeUp(MaxOrderRequests)
          /\ (\E u \in ShopUsers, o \in 1..3, url \in {"", "x", "y"} : PostInvoice(1, u, o, url))
          /\ UNCHANGED <<listing, normalizer, routes, auth>>
    \/ AddToCartWrite(1) /\ UNCHANGED <<listing, normalizer, routes, auth>>
    \/ CreateOrder(1) /\ UNCHANGED <<listing, normalizer, routes, auth>>
    \/ ClearCartAfterOrder(1) /\ UNCHANGED <<listing, normalizer, routes, auth>>
    \/ Return(1) /\ UNCHANGED <<listing, normalizer, routes, auth>>

SpecOrders == Init /\ [][NextOrders]_vars

(***************************************************************************)
(* Sessions, API tokens and requireAuth in front of the protected routes.   *)
(* One request at a time; the clock counts days.                           *)
(***************************************************************************)
\* the last day of the clock
MaxDay == 7

\* the number of sign-ins
MaxSessions == 2

\* the number of requests to protected routes
MaxAuthRequests == 2

\* the life of a session, in days
SevenDays == 7

\* the n-th token of randomUUID, and the n-th API token
SessionToken(n) == <<"s", DigitChars[n + 1]>>

ApiToken(n) == <<"a", "k", "_", DigitChars[n + 1]>>

\* the Authorization headers sent: none, another scheme, Bearer with no token
\* and with the first tokens of the server, before and after it issues them
Headers ==
    { [scheme |-> "none", token |-> <<>>], [scheme |-> "Basic", token |-> SessionToken(1)] }
    \cup { [scheme |-> "Bearer", token |-> t] :
             t \in { <<>>, SessionToken(1), SessionToken(2), ApiToken(1) } }

\* storage.createSession at the time at
createSession(rows, token, userId, at) ==
    rows \cup { [token |-> token, userId |-> userId, expiresAt |-> at + SevenDays] }

\* mutant: the session is found whatever its expiry
getSession_NoExpiry(rows, token, at) == { s \in rows : s.token = token }

\* storage.getSession: the rows with the token that have not expired
getSession(rows, token, at) == { s \in rows : s.token = token /\ s.expiresAt > at }

\* storage.deleteSession
deleteSession(rows, token) == { s \in rows : s.token # token }

\* storage.getApiTokenByHash: the rows of the token
getApiTokenByHash(rows, token) == { a \in rows : a.token = token }

\* mutant: any Authorization header is read as a Bearer credential
requireAuth_AnyScheme(header, at) ==
    IF header.token = <<>>
    THEN [status |-> 401, error |-> "Invalid token format"]
    ELSE IF getSession(sessions, header.token, at) = {}
    THEN [status |-> 401, error |-> "Invalid or expired session"]
    ELSE [status |-> 0, via |-> "session",
          userId |-> (CHOOSE s \in getSession(sessions, header.token, at) : TRUE).userId]

\* requireAuth at the time at: the 401 it answers, or (status 0) the user it
\* hands to the handler and the kind of credential that named the user
requireAuth(header, at) ==
    IF header.scheme # "Bearer"
    THEN [status |-> 401, error |-> "Authentication required"]
    ELSE IF header.token = <<>>
    THEN [status |-> 401, error |-> "Invalid token format"]
    ELSE IF Len(header.token) >= 3 /\ SubSeq(header.token, 1, 3) = <<"a", "k", "_">>
    THEN LET found == getApiTokenByHash(apiTokens, header.token)
         IN  IF found = {}
             THEN [status |-> 401, error |-> "Invalid or expired API token"]
             ELSE IF (CHOOSE a \in found : TRUE).userId \notin ShopUsers
             THEN [status |-> 401, error |-> "User not found"]
             ELSE [status |-> 0, via |-> "api", userId |-> (CHOOSE a \in found : TRUE).userId]
    ELSE LET found == getSession(sessions, header.token, at)
         IN  IF found = {}
             THEN [status |-> 401, error |-> "Invalid or expired session"]
             ELSE IF (CHOOSE s \in found : TRUE).userId \notin ShopUsers
             THEN [status |-> 401, error |-> "User not found"]
             ELSE [status |-> 0, via |-> "session", userId |-> (CHOOSE s \in found : TRUE).userId]

\* POST /api/auth/signin with the credentials of a user
SignIn ==
    \E userId \in ShopUsers :
        /\ call[1].pc = "idle"
        /\ Cardinality(history.issued) < MaxSessions
        /\ LET token == SessionToken(Cardinality(history.issued) + 1)
           IN  /\ sessions' = createSession(sessions, token, userId, now)
               /\ history' = [history EXCEPT !.issued =
                                 @ \cup { [token |-> token, userId |-> userId,
                                           createdAt |-> now] }]
        /\ UNCHANGED <<apiTokens, now, shop, req>>

\* POST /api/auth/logout behind requireAuth: req.session is not set for a
\* request that an API token authenticated, and the catch block answers 500
Logout(header, via, userId) ==
    IF via = "session"
    THEN /\ sessions' = deleteSession(sessions, header.token)
         /\ history' = [history EXCEPT !.loggedOut = @ \cup {header.token}]
         /\ call' = [call EXCEPT ![1] = [pc |-> "done", op |-> "POST /api/auth/logout",
                                          userId |-> userId, status |-> 200]]
    ELSE /\ call' = [call EXCEPT ![1] = [pc |-> "done", op |-> "POST /api/auth/logout",
                                          userId |-> userId, status |-> 500,
                                          error |-> "Failed to logout"]]
         /\ UNCHANGED <<sessions, history>>

\* a request to a protected route: requireAuth, then the handler of the route
\* for the user found.  An API token that authenticates has its lastUsedAt
\* set; POST /api/tokens adds a token of the user.
Request ==
    \E header \in Headers :
        /\ call[1].pc = "idle"
        /\ TakeUp(MaxAuthRequests)
        /\ req' = [route |-> "protected", header |-> header]
        /\ LET found == requireAuth(header, now)
               used == IF found.status = 0 /\ found.via = "api"
                       THEN { IF a.token = header.token THEN [a EXCEPT !.lastUsedAt = now] ELSE a :
                                a \in apiTokens }
                       ELSE apiTokens
           IN  IF found.status = 401
               THEN /\ call' = [call EXCEPT ![1] = [pc |-> "done", op |-> "requireAuth",
                                                     status |-> 401, error |-> found.error]]
                    /\ UNCHANGED <<cart, orders, sessions, apiTokens, history>>
               ELSE \/ /\ PostCart(1, found.userId, "A", 1)
                       /\ apiTokens' = used
                       /\ UNCHANGED <<sessions, history>>
                    \/ /\ Checkout(1, "POST /api/checkout", found.userId)
                       /\ apiTokens' = used
                       /\ UNCHANGED <<sessions, history>>
                    \/ /\ Logout(header, found.via, found.userId)
                       /\ apiTokens' = used
                       /\ UNCHANGED <<cart, orders>>
                    \/ /\ used = {}
                       /\ apiTokens' = { [token |-> ApiToken(1), userId |-> found.userId,
                                          lastUsedAt |-> 0 - 1] }
                       /\ call' = [call EXCEPT ![1] = [pc |-> "done", op |-> "POST /api/tokens",
                                                        userId |-> found.userId, status |-> 200]]
                       /\ UNCHANGED <<cart, orders, sessions, history>>
        /\ UNCHANGED now

\* a day passes between two requests
Tick ==
    /\ call[1].pc = "idle"
    /\ now < MaxDay
    /\ now' = now + 1
    /\ UNCHANGED <<sessions, apiTokens, history, shop, req>>

\* the requests, the clock, the rest of a handler that requireAuth let
\* through, and the end of the request
NextAuth ==
    \/ SignIn /\ UNCHANGED <<listing, normalizer, res>>
    \/ Request /\ UNCHANGED <<listing, normalizer, res>>
    \/ Tick /\ UNCHANGED <<listing, normalizer, res>>
    \/ AddToCartWrite(1) /\ UNCHANGED <<listing, normalizer, routes, auth>>
    \/ CreateOrder(1) /\ UNCHANGED <<listing, normalizer, routes, auth>>
    \/ ClearCartAfterOrder(1) /\ UNCHANGED <<listing, normalizer, routes, auth>>
    \/ Return(1) /\ req' = NoRequest /\ UNCHANGED <<listing, normalizer, res, auth>>

SpecAuth == Init /\ [][NextAuth]_vars

(***************************************************************************)
(* The two catalog routes on raw requests: the query texts as a caller may  *)
(* send them, and a store that may throw on the request.                    *)
(***************************************************************************)
\* page and limit as sent: absent, not a number, zero, negative, a number
RawNumbers == { <<>>, <<"a","b","c">>, <<"0">>, <<"-","1">>, <<"2">> }

\* the ids parameter as sent: absent, separators only, a blank, lists; the
\* identifiers of the catalog are one character long
RawIds == { <<>>, <<",">>, <<" ">>, <<"A",",","X">>, <<"A",",",",","B">> }

\* what the store does on the request: it answers, or it throws an error with
\* a message of its own
StoreFaults ==
    { [thrown |-> FALSE, message |-> ""],
      [thrown |-> TRUE, message |-> "connect ECONNREFUSED 10.0.0.5:5432"],
      [thrown |-> TRUE, message |-> "relation \"products\" does not exist"] }

\* ids.split(','): the segments between the commas, as identifiers; a segment
\* that trims to nothing is the empty identifier, one longer than a character
\* names no row
RECURSIVE SplitIds(_, _)
SplitIds(s, segment) ==
    LET id == IF ~Truthy(Trim(segment)) THEN ""
              ELSE IF Len(segment) = 1 THEN segment[1] ELSE "?"
    IN  IF s = <<>> THEN <<id>>
        ELSE IF Head(s) = "," THEN <<id>> \o SplitIds(Tail(s), <<>>)
        ELSE SplitIds(Tail(s), Append(segment, Head(s)))

\* GET /api/products
RouteProducts(page, limit, category, fault) ==
    LET query == [page |-> page, limit |-> limit, search |-> <<>>, category |-> category,
                  sortBy |-> "", priceMin |-> <<>>, priceMax |-> <<>>, rating |-> <<>>]
    IN  /\ req' = [route |-> "GET /api/products", page |-> page, limit |-> limit,
                   category |-> category, fault |-> fault]
        /\ IF fault.thrown
           THEN res' = [status |-> 500,
                        error |-> IF fault.message # "" THEN fault.message
                                  ELSE "Failed to fetch products"]
           ELSE \E o \in StoreOrders(query) : res' = GetApiProducts(query, o)

\* GET /api/products/by-ids: 400 without ids, the empty list before the store
\* is asked when no identifier is left, the fixed text when the store throws
RouteProductsByIds(ids, category, fault) ==
    LET list == IF Truthy(ids) THEN SplitIds(ids, <<>>) ELSE <<>>
        productIds == SelectSeq(list, LAMBDA id : id # "")
        query == [ids |-> list, category |-> category, sortBy |-> "",
                  priceMin |-> <<>>, priceMax |-> <<>>, rating |-> <<>>]
    IN  /\ req' = [route |-> "GET /api/products/by-ids", ids |-> ids,
                   category |-> category, fault |-> fault]
        /\ IF fault.thrown /\ productIds # <<>>
           THEN res' = [status |-> 500, error |-> "Failed to fetch products"]
           ELSE \E rows \in getProductsByIds(productIds) :
                    res' = GetApiProductsByIds(query, rows)

ListRequest ==
    \E page, limit \in RawNumbers, category \in Categories, fault \in StoreFaults :
        RouteProducts(page, limit, category, fault)

ByIdsRequest ==
    \E ids \in RawIds, category \in Categories, fault \in StoreFaults :
        RouteProductsByIds(ids, category, fault)

NextRoutes ==
    \/ res = NoResponse /\ ListRequest /\ UNCHANGED <<listing, normalizer, shop, auth>>
    \/ res = NoResponse /\ ByIdsRequest /\ UNCHANGED <<listing, normalizer, shop, auth>>

SpecRoutes == Init /\ [][NextRoutes]_vars

(***************************************************************************)
(* GET /api/categories: getCategories over the category texts the catalog   *)
(* holds.                                                                   *)
(***************************************************************************)
\* length of the longest category text
MaxCategoryLen == 3

\* the characters of the category texts: a capital, a small letter, the
\* blank, the separator
CategoryChars == { "B", "a", " ", "|" }

\* the distinct category texts of a catalog: none, one or two
CategoryCatalogs ==
    LET texts == UNION { [1..n -> CategoryChars] : n \in 0..MaxCategoryLen }
    IN  {{}} \cup { {c, d} : c, d \in texts }

\* UTF-16 code unit of a character
CharCode == [c \in CategoryChars |->
                CASE c = " " -> 32 [] c = "B" -> 66 [] c = "a" -> 97 [] c = "|" -> 124]

\* s < t in the order of Array.prototype.sort without a comparator: by code
\* units, a proper prefix first
RECURSIVE CodeLess(_, _)
CodeLess(s, t) ==
    IF t = <<>> THEN FALSE
    ELSE IF s = <<>> THEN TRUE
    ELSE IF Head(s) = Head(t) THEN CodeLess(Tail(s), Tail(t))
    ELSE CharCode[Head(s)] < CharCode[Head(t)]

\* mutant: the segments are kept as they stand between the separators
RECURSIVE CategorySegments_Untrimmed(_, _)
CategorySegments_Untrimmed(s, segment) ==
    LET here == IF Truthy(segment) THEN {segment} ELSE {}
    IN  IF s = <<>> THEN here
        ELSE IF Head(s) = "|" THEN here \cup CategorySegments_Untrimmed(Tail(s), <<>>)
        ELSE CategorySegments_Untrimmed(Tail(s), Append(segment, Head(s)))

\* category.split('|'), each segment trimmed and kept when not empty;
\* segment is the part read since the last separator
RECURSIVE CategorySegments(_, _)
CategorySegments(s, segment) ==
    LET trimmed == Trim(segment)
        here == IF Truthy(trimmed) THEN {trimmed} ELSE {}
    IN  IF s = <<>> THEN here
        ELSE IF Head(s) = "|" THEN here \cup CategorySegments(Tail(s), <<>>)
        ELSE CategorySegments(Tail(s), Append(segment, Head(s)))

\* Array.from(set).sort()
RECURSIVE SortStrings(_)
SortStrings(S) ==
    IF S = {} THEN <<>>
    ELSE LET first == CHOOSE x \in S : \A y \in S \ {x} : CodeLess(x, y)
         IN  <<first>> \o SortStrings(S \ {first})

\* getCategories on the rows of SELECT DISTINCT category
getCategories(rows) ==
    SortStrings(UNION { IF Truthy(c) THEN CategorySegments(c, <<>>) ELSE {} : c \in rows })

\* the route on any catalog
NextCategories ==
    /\ res = NoResponse
    /\ \E rows \in CategoryCatalogs :
          /\ req' = [route |-> "GET /api/categories", rows |-> rows]
          /\ res' = [status |-> 200, categories |-> getCategories(rows)]
    /\ UNCHANGED <<listing, normalizer, shop, auth>>

SpecCategories == Init /\ [][NextCategories]_vars

(***************************************************************************)
(* Properties.                                                             *)
(***************************************************************************)
NoFilters(a) == a.category = <<>> /\ a.priceMin = <<>> /\ a.priceMax = <<>> /\ a.rating = <<>>

Ids(list) == [i \in DOMAIN list |-> list[i].id]

SemanticFailed == semantic.kind \in {"error", "notOk"}

\* the answer of the direct catalog query for the arguments a, filtering the
\* product name by the raw search text, when the store lists the rows in order o
DirectQuery(a, o) ==
    LET result == getProducts(o, a.page, a.limit, a.search, a.category, a.sortBy,
                              a.priceMin, a.priceMax, a.rating)
    IN  [products |-> result.products,
         pagination |-> [page |-> a.page, limit |-> a.limit, total |-> result.total,
                         totalPages |-> CeilDiv(result.total, a.limit)]]

\* the answers the direct catalog query may give for the arguments a
DirectQueryResults(a) ==
    { DirectQuery(a, o) :
        o \in OrderedRows(MatchingRows(a.search, a.category, a.priceMin, a.priceMax, a.rating),
                          a.sortBy) }

C2_RelevanceKeepsSemanticRank ==
    (pc = "done" /\ path = "hybrid" /\ NoFilters(args) /\ args.sortBy = "relevance") =>
        /\ Ids(resultSet) = SelectSeq(semantic.ids, LAMBDA id : id \in ProductIds)
        /\ \A i \in DOMAIN resultSet : resultSet[i] = RowOf(resultSet[i].id)
        /\ semantic.ids = <<"B", "A", "C">> => Ids(resultSet) = <<"B", "A", "C">>
        /\ outcome.data.pagination.total = Len(resultSet)

\* C2 witness: candidates [B, A, C] merged under "relevance" without filters
C2_Witness ==
    /\ pc = "done"
    /\ path = "hybrid"
    /\ NoFilters(args)
    /\ args.sortBy = "relevance"
    /\ semantic.ids = <<"B", "A", "C">>
    /\ Ids(resultSet) = <<"B", "A", "C">>

(***************************************************************************)
(* The normalized price of the listing contract: every character that is   *)
(* neither a digit nor a decimal point is removed and the rest is read as a *)
(* decimal number num / 10^scale; 0 when nothing can be read.              *)
(***************************************************************************)
DecimalValue(text) ==
    LET t == StripToNumberChars(text)
        int == LeadingDigits(t)
        rest == SubSeq(t, Len(int) + 1, Len(t))
        frac == IF rest # <<>> /\ Head(rest) = "." THEN LeadingDigits(Tail(rest)) ELSE <<>>
    IN  [num |-> DigitsValue(int \o frac), scale |-> Len(frac)]

RECURSIVE Pow10(_)
Pow10(n) == IF n = 0 THEN 1 ELSE 10 * Pow10(n - 1)

\* x <= y for decimal values
DecimalLeq(x, y) == x.num * Pow10(y.scale) <= y.num * Pow10(x.scale)

DecimalEq(x, y) == x.num * Pow10(y.scale) = y.num * Pow10(x.scale)

PriceLeq(p, q) == DecimalLeq(DecimalValue(p.discountedPrice), DecimalValue(q.discountedPrice))

PriceEq(p, q) == DecimalEq(DecimalValue(p.discountedPrice), DecimalValue(q.discountedPrice))

\* the least number of pages of size limit that hold total items
PagesNeeded(total, limit) ==
    CHOOSE n \in 0..total : n * limit >= total /\ (n = 0 \/ (n - 1) * limit < total)

Listed == pc = "done" /\ outcome.ok /\ path \in {"hybrid", "regular"}

\* C3: in the hybrid path an explicit sort key of the sort selector other
\* than relevance orders the merged result by that key, not by semantic rank:
\* price ascending gives non-decreasing normalized discounted price, price
\* descending non-increasing, the rating sorts order by rating (a missing
\* rating lowest), newest by identifier descending.
C3_ExplicitSortOverridesRank ==
    (pc = "done" /\ path = "hybrid") =>
        \A i, j \in DOMAIN resultSet : i < j =>
            /\ args.sortBy = "price-low" => PriceLeq(resultSet[i], resultSet[j])
            /\ args.sortBy = "price-high" => PriceLeq(resultSet[j], resultSet[i])
            /\ args.sortBy = "rating-high" => resultSet[i].rating >= resultSet[j].rating
            /\ args.sortBy = "rating-low" => resultSet[i].rating <= resultSet[j].rating
            /\ args.sortBy = "newest" => IdRank(resultSet[i].id) > IdRank(resultSet[j].id)

\* the page p of the result set, as the path that produced the result cuts it
PageOfResult(p) ==
    IF path = "hybrid"
    THEN PaginateProducts([args EXCEPT !.page = p], resultSet).products
    ELSE getProducts(resultSet, p, args.limit, args.search, args.category, args.sortBy,
                     args.priceMin, args.priceMax, args.rating).products

RECURSIVE ConcatPages(_, _)
ConcatPages(pages, n) == IF n = 0 THEN <<>> ELSE ConcatPages(pages, n - 1) \o pages[n]

NoDuplicates(list) == \A i, j \in DOMAIN list : list[i] = list[j] => i = j

C5_ZeroCandidatesFallBack ==
    (pc = "done" /\ semantic.kind = "ok" /\ semantic.ids = <<>>) =>
        /\ outcome.ok
        /\ outcome.data \in DirectQueryResults(args)

\* C5 amended: when the semantic search succeeds with zero candidates the
\* request returns, without querying the catalog, the empty page: products
\* [], total 0, totalPages 0, with the requested page and limit.
C5_ZeroCandidatesGiveEmptyPage ==
    (pc = "done" /\ semantic.kind = "ok" /\ semantic.ids = <<>>) =>
        /\ outcome.ok
        /\ path = "empty"
        /\ outcome.data.products = <<>>
        /\ outcome.data.pagination =
              [page |-> args.page, limit |-> args.limit, total |-> 0, totalPages |-> 0]

\* C5 witness: zero candidates for a search text that product names contain
C5_Witness ==
    /\ pc = "done"
    /\ semantic.kind = "ok"
    /\ semantic.ids = <<>>
    /\ MatchingRows(args.search, args.category, args.priceMin, args.priceMax, args.rating) # {}
    /\ outcome.ok
    /\ outcome.data.products = <<>>

\* the rows the filters are applied to: the stored candidates on the hybrid
\* path, the rows whose name holds the search text on the local path
FilterPool ==
    IF path = "hybrid"
    THEN { p \in ProductsTable : \E i \in DOMAIN semantic.ids : semantic.ids[i] = p.id }
    ELSE MatchingRows(args.search, <<>>, <<>>, <<>>, <<>>)

\* C6: on the local and on the hybrid path the category filter keeps exactly
\* the rows whose category holds the filter text, case-insensitively:
\* "Electronics" keeps a product of category "Electronics|Audio|Headphones".
C6_CategoryIsSubstringMatch ==
    (Listed /\ Truthy(args.category)
        /\ args.priceMin = <<>> /\ args.priceMax = <<>> /\ args.rating = <<>>) =>
        { resultSet[i] : i \in DOMAIN resultSet } =
            { p \in FilterPool : Contains(ToLower(p.category), ToLower(args.category)) }

\* the number of products that match the request
MatchCount ==
    IF path = "hybrid"
    THEN LET known == SelectSeq(semantic.ids, LAMBDA id : id \in ProductIds)
         IN  Len(FilterProducts([i \in DOMAIN known |-> RowOf(known[i])],
                                args.category, args.priceMin, args.priceMax, args.rating))
    ELSE Cardinality(MatchingRows(args.search, args.category, args.priceMin,
                                  args.priceMax, args.rating))

\* C7: a request for a page beyond the last one returns, without error, an
\* empty products array while total and totalPages report the true match
\* count, on the local and on the hybrid path; page 999 of three matches with
\* limit 3 gives products [], total 3, totalPages 1.
C7_PageBeyondLastIsEmpty ==
    (pc = "done" /\ path \in {"hybrid", "regular"}
        /\ args.page > PagesNeeded(MatchCount, args.limit)) =>
        /\ outcome.ok
        /\ outcome.data.products = <<>>
        /\ outcome.data.pagination.total = MatchCount
        /\ outcome.data.pagination.totalPages = PagesNeeded(MatchCount, args.limit)
        /\ (args.page = 999 /\ MatchCount = 3 /\ args.limit = 3) =>
              outcome.data.pagination.totalPages = 1

\* C7 witness: page 999 of a three-match local query with limit 3
C7_Witness ==
    /\ pc = "done"
    /\ path = "regular"
    /\ args.page = 999
    /\ args.limit = 3
    /\ MatchCount = 3
    /\ outcome.ok
    /\ outcome.data.products = <<>>
    /\ outcome.data.pagination.total = 3
    /\ outcome.data.pagination.totalPages = 1

\* C8: in every listing response totalPages is the ceiling of total / limit
\* and is 0 exactly when total is 0; a query that matches nothing returns
\* products [], total 0, totalPages 0 without error.
C8_TotalPagesIsCeiling ==
    /\ (pc = "done" /\ outcome.ok) =>
          LET pg == outcome.data.pagination
          IN  /\ pg.limit = args.limit
              /\ pg.totalPages = PagesNeeded(pg.total, pg.limit)
              /\ pg.totalPages = 0 <=> pg.total = 0
              /\ pg.total = 0 => outcome.data.products = <<>>
    /\ (pc = "done" /\ path \in {"hybrid", "regular"} /\ MatchCount = 0) =>
          /\ outcome.ok
          /\ outcome.data.products = <<>>
          /\ outcome.data.pagination.total = 0
          /\ outcome.data.pagination.totalPages = 0

\* C8 witness: a local query whose filters match no product
C8_Witness ==
    /\ pc = "done"
    /\ path = "regular"
    /\ semantic.kind = "none"
    /\ MatchCount = 0
    /\ outcome.ok
    /\ outcome.data.pagination.totalPages = 0

\* position of product p in the list
PositionIn(list, p) == CHOOSE i \in DOMAIN list : list[i] = p

\* p stands before q in the list
Before(list, p, q) == PositionIn(list, p) < PositionIn(list, q)

\* the merged lists a request like the finished one, with sort key k, may produce
SortedLike(k) ==
    { MergeProducts([args EXCEPT !.sortBy = k], semantic.ids,
                    GetApiProductsByIds(ByIdsParams([args EXCEPT !.sortBy = k], semantic.ids),
                                        rows).products) :
        rows \in getProductsByIds(semantic.ids) }

\* the order before sorting: the semantic rank of the filtered candidates
FetchOrder ==
    LET known == SelectSeq(semantic.ids, LAMBDA id : id \in ProductIds)
    IN  FilterProducts([i \in DOMAIN known |-> RowOf(known[i])],
                       args.category, args.priceMin, args.priceMax, args.rating)

\* the merged list of a finished hybrid request sorted with key asc, against
\* the lists of the same request sorted with key desc: reversed for distinct
\* normalized prices, in the order before the sort for equal ones, and the
\* same on every repetition
ReverseAndStable(asc, desc) ==
    /\ SortedLike(asc) = {resultSet}
    /\ \A other \in SortedLike(desc) :
          \A i, j \in DOMAIN resultSet : i < j =>
              IF PriceEq(resultSet[i], resultSet[j])
              THEN /\ Before(other, resultSet[i], resultSet[j])
                   /\ Before(FetchOrder, resultSet[i], resultSet[j])
              ELSE /\ Before(other, resultSet[j], resultSet[i])
                   /\ PriceLeq(resultSet[i], resultSet[j])

\* C9, on the merged list of the hybrid path: sorting the same filtered set
\* by price ascending and by price descending (the keys of the sort selector)
\* gives reversed relative orders for any two items of distinct normalized
\* price; items of equal normalized price keep, in both directions, their
\* order from before the sort; a repeated request lists the same order.
C9_PriceSortsReverseAndStable ==
    (pc = "done" /\ path = "hybrid" /\ args.sortBy = "price-low") =>
        ReverseAndStable("price-low", "price-high")

\* C10: the price normalizer removes every character that is neither a digit
\* nor a decimal point and reads the rest as a number; an empty, missing or
\* unreadable price gives 0.
C10_NormalizerKeepsDecimalPoint ==
    normalized # NaN =>
        LET claimed == IF price.present THEN DecimalValue(price.text)
                       ELSE [num |-> 0, scale |-> 0]
        IN  normalized * Pow10(claimed.scale) = claimed.num

\* C11: a listing request with search text always completes in the end; a
\* semantic service that never answers is given up after a bounded wait and
\* the request falls back to the direct query.
\* A run of queryFn has at most four steps, so it completes in the end
\* exactly when it is never left, incomplete, without a step to take: here,
\* a request whose semantic call is not answered still has a step to take.
C11_SearchRequestCompletes ==
    (semantic.kind = "silent" /\ pc # "done") => ENABLED Next

\* the call of request p is a finished addToCart
AddDone(p) == call[p].pc = "done" /\ call[p].status = 200 /\ call[p].op \in {"POST /api/cart", "POST /cart/add"}

\* p and q are two finished add-to-cart calls for one user and product that
\* ran at the same time: p began on an idle server, q began while p was
\* between its select and its write, and no other request came in
Simultaneous(p, q) ==
    /\ p # q
    /\ AddDone(p) /\ AddDone(q)
    /\ call[p].userId = call[q].userId
    /\ call[p].productId = call[q].productId
    /\ call[p].alone
    /\ call[q].overlaps
    /\ call[q].began = call[p].began + 1
    /\ served = call[q].began

\* C12: two simultaneous add-to-cart calls for the same user and product
\* leave, in every interleaving, exactly one cart row for the pair, and its
\* quantity is the prior quantity plus both added quantities.
C12_SimultaneousAddsSerialize ==
    \A p, q \in Procs :
        Simultaneous(p, q) =>
            LET rows == CartRowsOf(cart, call[p].userId, call[p].productId)
            IN  /\ Cardinality(rows) = 1
                /\ \A r \in rows :
                      r.quantity = call[p].prior + call[p].quantity + call[q].quantity

\* a listing request whose page or limit, or a by-ids request whose ids, is
\* missing where required or malformed
Malformed(r) ==
    \/ /\ r.route = "GET /api/products"
       /\ \E t \in {r.page, r.limit} : Truthy(t) /\ (ParseInt(t) = NaN \/ ParseInt(t) <= 0)
    \/ /\ r.route = "GET /api/products/by-ids"
       /\ SelectSeq(SplitIds(r.ids, <<>>), LAMBDA id : id # "") = <<>>

\* C13: a catalog listing request whose page or limit is malformed (not a
\* number, zero or negative), and a by-ids request whose ids parameter is
\* missing or malformed, is answered with a client error (a 4xx status) that
\* carries no product data, the store working.
C13_MalformedIsClientError ==
    (res # NoResponse /\ Malformed(req) /\ ~req.fault.thrown) =>
        /\ res.status \in 400..499
        /\ "products" \notin DOMAIN res

\* C14: when the store throws during a listing or a by-ids request (one that
\* names an identifier, so that the store is asked), the answer
\* is status 500 with the fixed text "Failed to fetch products", whatever the
\* message of the error: two failures with different messages are answered
\* alike.
C14_StoreFailureIsGeneric ==
    (res # NoResponse /\ req.fault.thrown
        /\ ~(req.route = "GET /api/products/by-ids" /\ Malformed(req))) =>
        /\ res.status = 500
        /\ res.error = "Failed to fetch products"

\* g is a segment of the category text c: it stands in c between two
\* separators (or an end of c) with nothing but blanks around it, and has no
\* blank at either end
IsSegmentOf(g, c) ==
    \E a, b \in 1..Len(c) :
        /\ a <= b
        /\ g = SubSeq(c, a, b)
        /\ c[a] # " " /\ c[b] # " "
        /\ \A k \in a..b : c[k] # "|"
        /\ \A k \in 1..(a - 1) : (\A m \in k..(a - 1) : c[m] # "|") => c[k] = " "
        /\ \A k \in (b + 1)..Len(c) : (\A m \in (b + 1)..k : c[m] # "|") => c[k] = " "

\* C15: the category listing holds exactly the non-empty trimmed segments
\* between the '|' separators of the catalog's category texts, each once, in
\* ascending order.
C15_CategoriesAreSortedSegments ==
    (res # NoResponse /\ req.route = "GET /api/categories") =>
        LET out == res.categories
        IN  /\ \A i, j \in 1..Len(out) : i < j => CodeLess(out[i], out[j])
            /\ { out[i] : i \in 1..Len(out) }
                 = { g \in UNION { { SubSeq(c, a, b) : a, b \in 1..Len(c) } : c \in req.rows } :
                       \E c \in req.rows : IsSegmentOf(g, c) }

\* two texts share a segment, one of them with a blank around it, and the
\* capital sorts before the small letter
C15_Witness ==
    /\ req.route = "GET /api/categories"
    /\ req.rows = { <<"a","|","B">>, <<" ","a">> }
    /\ res.categories = << <<"B">>, <<"a">> >>

\* the request was answered 401
Rejected(c) == c.pc = "done" /\ c.status = 401

\* the users (none or one) that the credential of the header names in the
\* stored state: through a session that has not expired, or an API token
Resolved(header) ==
    IF header.scheme # "Bearer" THEN {}
    ELSE { s.userId : s \in { r \in sessions : r.token = header.token /\ r.expiresAt > now } }
         \cup { a.userId : a \in { r \in apiTokens : r.token = header.token } }

C17_SessionEndsAtLogoutOrExpiry ==
    [][ (call[1].pc = "idle" /\ call'[1].pc # "idle" /\ req'.header.scheme = "Bearer") =>
            \A i \in history.issued :
                i.token = req'.header.token =>
                    (Rejected(call'[1]) <=>
                        (i.token \in history.loggedOut \/ now >= i.createdAt + SevenDays)) ]_vars

\* a token that was logged out is rejected while another session of the same
\* user is still valid
C17_Witness ==
    /\ Rejected(call[1])
    /\ req.route = "protected"
    /\ req.header.token \in history.loggedOut
    /\ \E i \in history.issued :
          /\ i.token = req.header.token
          /\ now < i.createdAt + SevenDays
          /\ \E s \in sessions : s.userId = i.userId /\ s.expiresAt > now

\* C18: a checkout, by either route, of a user whose cart holds nothing is
\* answered 400 "Cart is empty" at once, with no cart row and no order (and so
\* no order item) added, changed or removed.
C18_EmptyCartCheckoutRejected ==
    [][ (call[1].pc = "idle" /\ call'[1].pc # "idle" /\ call'[1].op \in CheckoutRoutes
            /\ \A r \in cart : r.userId # call'[1].userId) =>
            /\ call'[1].pc = "done"
            /\ call'[1].status = 400
            /\ call'[1].error = "Cart is empty"
            /\ UNCHANGED <<cart, orders>> ]_vars

\* the second checkout of a user is rejected: the first one made the order and
\* emptied the cart
C18_Witness ==
    /\ call[1].pc = "done"
    /\ call[1].op \in CheckoutRoutes
    /\ call[1].status = 400
    /\ \A r \in cart : r.userId # call[1].userId
    /\ \E o \in orders : o.userId = call[1].userId

\* C19: every stored cart item has a quantity of at least 1, whatever cart
\* requests were served.
C19_StoredQuantityPositive ==
    \A r \in cart : r.quantity >= 1

\* C20: on the hybrid path the in-memory filter keeps exactly the candidates
\* that the WHERE clause of the local query keeps for the same category, price
\* bounds and minimum rating, and the price the client reads from a
\* discountedPrice text is the price the store reads from it.
C20_FiltersAgree ==
    (pc = "done" /\ path = "hybrid") =>
        /\ { resultSet[i] : i \in DOMAIN resultSet } =
              { p \in FilterPool : WhereCondition(p, <<>>, args.category, args.priceMin,
                                                  args.priceMax, args.rating) }
        /\ \A p \in FilterPool : 100 * ClientPrice(p.discountedPrice) = SqlPrice(p.discountedPrice)

\* C21: in a list sorted by rating, on the local and on the hybrid path, a
\* product without a rating stands where the lowest rating would: behind
\* every rated product when the ratings descend, before every rated product
\* when they ascend.
C21_UnratedSortsLowest ==
    Listed =>
        \A i, j \in DOMAIN resultSet :
            /\ (i < j /\ resultSet[i].rating # NoRating /\ resultSet[j].rating = NoRating)
                  => (args.sortBy # "rating-low")
            /\ (i < j /\ resultSet[i].rating = NoRating /\ resultSet[j].rating # NoRating)
                  => (args.sortBy \notin {"rating", "rating-high"})

\* the product meets every criterion that the arguments supply: the name and
\* the category hold the given texts (letters of either case alike), the
\* price, read as a decimal number, lies within the bounds, the ends included,
\* and the product is rated with at least the rating floor
MeetsCriteria(p, a) ==
    LET value == DecimalValue(p.discountedPrice)
        Whole(n) == [num |-> n, scale |-> 0]
    IN  /\ Truthy(a.search) => Contains(ToLower(p.productName), ToLower(a.search))
        /\ Truthy(a.category) => Contains(ToLower(p.category), ToLower(a.category))
        /\ Truthy(a.priceMin) => DecimalLeq(Whole(ParseInt(a.priceMin)), value)
        /\ Truthy(a.priceMax) => DecimalLeq(value, Whole(ParseInt(a.priceMax)))
        /\ Truthy(a.rating) => (p.rating # NoRating /\ p.rating >= ParseFloat(a.rating))

\* C22: the local catalog query lists exactly the products that meet every
\* supplied criterion at once, each once; total is the number of these
\* products; with no criterion supplied every product is listed.
C22_LocalQueryIsConjunction ==
    (pc = "done" /\ path = "regular" /\ outcome.ok) =>
        LET matching == { p \in ProductsTable : MeetsCriteria(p, args) }
        IN  /\ { resultSet[i] : i \in DOMAIN resultSet } = matching
            /\ Len(resultSet) = Cardinality(matching)
            /\ outcome.data.pagination.total = Cardinality(matching)
            /\ (args.search = <<>> /\ NoFilters(args)) => matching = ProductsTable

\* the checkout of the call has made its order and cleared the cart
CheckoutDone(p) ==
    call[p].pc = "done" /\ call[p].status = 200 /\ call[p].op \in CheckoutRoutes

\* C23: an add to the cart that begins while a checkout of the same user is
\* in progress loses nothing.  The checkout has read the cart before the add
\* began, so the order holds none of what the add brings, and the quantity
\* added is in the cart once both requests are complete.
C23_AddDuringCheckoutIsKept ==
    \A p, q \in Procs :
        (AddDone(p) /\ CheckoutDone(q) /\ call[p].userId = call[q].userId
            /\ call[p].began > call[q].began) =>
            SumQuantity(CartRowsOf(cart, call[p].userId, call[p].productId)) >= call[p].quantity

\* C24: two checkouts of one user that run at the same time do not both
\* order the same cart rows: no cart row is among the items of both.
C24_CartOrderedOnce ==
    \A p, q \in Procs :
        (p # q /\ CheckoutDone(p) /\ CheckoutDone(q) /\ call[p].userId = call[q].userId) =>
            call[p].cartItems \cap call[q].cartItems = {}

\* the sum of the totalPrice of a set of order items
RECURSIVE SumTotalPrice(_)
SumTotalPrice(items) ==
    IF items = {} THEN 0
    ELSE LET i == CHOOSE x \in items : TRUE IN i.totalPrice + SumTotalPrice(items \ {i})

\* totalPrice (in hundredths) is the decimal value of the price text times
\* the quantity
IsPriceTimesQuantity(i) ==
    i.totalPrice * Pow10(DecimalValue(i.price).scale) = 100 * DecimalValue(i.price).num * i.quantity

\* C25: a checkout of a non-empty cart served alone creates exactly one order,
\* of that user, whose items are exactly the (product, quantity) pairs of the
\* user's cart, each with totalPrice = price x quantity and the price of the
\* product, whose totalAmount is the sum of the item totals; afterwards the
\* user's cart is empty; the carts and orders of the other users are never
\* touched, and no other step of the checkout changes the cart or the orders.
C25_CheckoutOrdersTheCart ==
    [][ LET u == call[1].userId
            mine == { r \in cart : r.userId = u }
        IN  /\ (call[1].pc = "idle" /\ call'[1].pc = "items") =>
                /\ call'[1].cartItems = { r \in cart : r.userId = call'[1].userId }
                /\ call'[1].cartItems # {}
                /\ UNCHANGED <<cart, orders>>
            /\ (call[1].pc = "items" /\ call'[1].pc = "ordered") =>
                /\ call[1].cartItems = mine
                /\ UNCHANGED cart
                /\ orders \subseteq orders'
                /\ Cardinality(orders') = Cardinality(orders) + 1
                /\ \A o \in orders' \ orders :
                      /\ o.userId = u
                      /\ \A r \in mine : \E i \in o.items :
                            i.productId = r.productId /\ i.quantity = r.quantity
                      /\ \A i \in o.items : \E r \in mine :
                            i.productId = r.productId /\ i.quantity = r.quantity
                      /\ Cardinality(o.items) = Cardinality(mine)
                      /\ \A i \in o.items :
                            /\ i.price = RowOf(i.productId).discountedPrice
                            /\ IsPriceTimesQuantity(i)
                      /\ o.totalAmount = SumTotalPrice(o.items)
            /\ (call[1].pc = "ordered" /\ call'[1].pc = "done") =>
                /\ call'[1].status = 200
                /\ UNCHANGED orders
                /\ { r \in cart' : r.userId = u } = {}
                /\ { r \in cart' : r.userId # u } = { r \in cart : r.userId # u }
                /\ \E o \in orders : o.userId = u /\ Cardinality(o.items) = Cardinality(mine) ]_vars

\* a checkout of a cart of two products has answered 200: the order holds
\* both, the user's cart is empty
C25_Witness ==
    /\ call[1].pc = "done"
    /\ call[1].op \in CheckoutRoutes
    /\ call[1].status = 200
    /\ Cardinality(call[1].cartItems) = 2
    /\ \A r \in cart : r.userId # call[1].userId
    /\ \E o \in orders :
          /\ o.userId = call[1].userId
          /\ { i.productId : i \in o.items } = { "A", "D" }
          /\ o.totalAmount = SumTotalPrice(o.items)
          /\ o.totalAmount > 0

\* C26: with cart requests served one at a time, no (user, product) pair ever
\* has two cart rows; an add for a product the user's cart already holds
\* raises the quantity of that row by the amount added and creates no row; and
\* no step of a request changes a cart row of a user other than the request's.
C26_OneRowPerUserAndProduct ==
    [][ /\ \A r1, r2 \in cart' :
              (r1.userId = r2.userId /\ r1.productId = r2.productId) => r1 = r2
        /\ (call[1].pc = "read" /\ call'[1].pc = "done"
                /\ CartRowsOf(cart, call[1].userId, call[1].productId) # {}) =>
              /\ call'[1].status = 200
              /\ Cardinality(cart') = Cardinality(cart)
              /\ \A r \in CartRowsOf(cart, call[1].userId, call[1].productId) :
                    cart' = (cart \ {r}) \cup
                                { [r EXCEPT !.quantity = r.quantity + call[1].quantity] }
        /\ (call'[1].pc # "idle") =>
              { r \in cart' : r.userId # call'[1].userId }
                  = { r \in cart : r.userId # call'[1].userId }
        /\ (call'[1].pc = "idle") => UNCHANGED cart ]_vars

\* u1 has added 2 of a product to the 1 the cart held, next to a row of u2:
\* the row holds 3
C26_Witness ==
    /\ call[1].pc = "done"
    /\ call[1].op \in {"POST /api/cart", "POST /cart/add"}
    /\ call[1].status = 200
    /\ call[1].existing # NoItem
    /\ call[1].existing.quantity = 1
    /\ call[1].quantity = 2
    /\ \E r \in cart : r.userId # call[1].userId
    /\ \E r \in cart :
          /\ r.id = call[1].existing.id
          /\ r.userId = call[1].userId
          /\ r.productId = call[1].productId
          /\ r.quantity = 3

\* C27: a request to GET /api/orders/:orderId or to
\* POST /api/orders/:orderId/invoice by a signed-in user who does not own the
\* order is rejected (status 403) and leaves every order, its invoiceUrl
\* included, as it was.
C27_OnlyOwnerTouchesOrder ==
    [][ (/\ call[1].pc = "idle"
         /\ call'[1].pc = "done"
         /\ call'[1].op \in {"GET /api/orders/:orderId", "POST /api/orders/:orderId/invoice"}
         /\ \E o \in orders : o.id = call'[1].orderId /\ o.userId # call'[1].userId) =>
            /\ call'[1].status = 403
            /\ UNCHANGED orders ]_vars
====
